---- MODULE Spec2Model ----
(***************************************************************************)
(* A model of similar_images.py: perceptual-hash fingerprints of the       *)
(* images found under one or two directory roots, a KDTree over their bit  *)
(* vectors, one radius query per image of the query set, and the           *)
(* conversion of the directional match map into unordered pairs.           *)
(***************************************************************************)
EXTENDS Integers, Sequences, FiniteSets, TLC

VARIABLES
    files,                   \* the image files present in the file system
    link,                    \* TRUE iff pics/new/c.png is a symlink to pics/a.png
    content,                 \* file -> its perceptual hash, or Undecodable
    scandir_pics,            \* the image files directly in pics, in the order
                             \* in which the file system lists them
    path_to_existing_images, \* argument of get_similar_images
    path_to_new_images,      \* argument of get_similar_images (None or a root)
    sensitivity,             \* argument of get_similar_images
    pc,                      \* position in main / get_similar_images
    i,                       \* position in the listing being iterated
    images,                  \* the dict  img_path -> HashedImage
    image_list,              \* list(images.values())
    tree,                    \* spatial.KDTree(image_list): its data rows
    res,                     \* defaultdict(list): img_path -> [HashedImage]
    similar_img_ids,         \* the ids the last radius query returned
    similar_pairs,           \* the set built by similar_images_pairs
    exc,                     \* the exception that ended the run, if any
    num,                     \* _bin_array's argument num
    m,                       \* _bin_array's argument m
    bit_arr                  \* _bin_array's result

vars == <<files, link, content, scandir_pics, path_to_existing_images, path_to_new_images,
          sensitivity, pc, i, images, image_list, tree, res, similar_img_ids,
          similar_pairs, exc, num, m, bit_arr>>

(***************************************************************************)
(* Bounds of the model.                                                    *)
(***************************************************************************)
\* sensitivity ranges over 0..MaxSensitivity
MaxSensitivity == 2
\* the hashes of the files are 2^k - 1 for k in 0..MaxOnes
MaxOnes == 5
\* _bin_array is applied to widths 1..MaxWidth
MaxWidth == 6

(***************************************************************************)
(* Program constants.                                                      *)
(***************************************************************************)
IMAGE_EXTENSIONS == {".jpeg", ".jpg", ".gif", ".png", ".bmp"}
BITS_PER_BYTE == 8
_hash_size == 8

None == "None"
Undecodable == -1
phash == "phash"

(***************************************************************************)
(* The file system: a directory pics with a subdirectory new.  rglob       *)
(* yields the entries of a directory before those of its subdirectories,   *)
(* and the entries of one directory in the order of the file system, which *)
(* is not sorted: scandir_pics is that order for the images directly in    *)
(* pics.  notes.txt is always present and never an image, so its place in  *)
(* the order is never seen; pics/new/c.png may be a symlink to             *)
(* pics/a.png.                                                             *)
(***************************************************************************)
Orders(S) ==
    {s \in [1..Cardinality(S) -> S] : \A j, k \in 1..Cardinality(S) :
                                        j # k => s[j] # s[k]}

DirOrder == scandir_pics \o <<"pics/notes.txt", "pics/new/c.png">>
ImagePaths == {"pics/a.png", "pics/b.PNG", "pics/new/c.png"}
Roots == {"pics", "pics/new"}

Under(root, p) ==
    CASE root = "pics"     -> p \in {"pics/a.png", "pics/b.PNG",
                                     "pics/notes.txt", "pics/new/c.png"}
      [] root = "pics/new" -> p = "pics/new/c.png"
      [] OTHER             -> FALSE

suffix(p) ==
    CASE p = "pics/notes.txt" -> ".txt"
      [] p = "pics/b.PNG"     -> ".PNG"
      [] OTHER                -> ".png"

lower(ext) == IF ext = ".PNG" THEN ".png" ELSE ext

Present(p) == p = "pics/notes.txt" \/ p \in files

realpath(p) == IF p = "pics/new/c.png" /\ link THEN "pics/a.png" ELSE p

RECURSIVE Pow2(_)
Pow2(k) == IF k = 0 THEN 1 ELSE 2 * Pow2(k - 1)

HashValues == {Pow2(k) - 1 : k \in 0..MaxOnes}

(***************************************************************************)
(* _list_images                                                            *)
(***************************************************************************)
IsListed(path, p) ==
    Present(p) /\ Under(path, p) /\ lower(suffix(p)) \in IMAGE_EXTENSIONS

_list_images(path) == SelectSeq(DirOrder, LAMBDA p : IsListed(path, p))

(***************************************************************************)
(* _bin_array                                                              *)
(***************************************************************************)
RECURSIVE binary_repr(_)
binary_repr(n) ==
    IF n < 2 THEN <<IF n = 1 THEN "1" ELSE "0">>
    ELSE Append(binary_repr(n \div 2), IF n % 2 = 1 THEN "1" ELSE "0")

RECURSIVE zfill(_, _)
zfill(s, width) == IF Len(s) >= width THEN s ELSE zfill(<<"0">> \o s, width)

astype_int8(chars) == [k \in 1..Len(chars) |-> IF chars[k] = "1" THEN 1 ELSE 0]

_bin_array_unpadded(n, width) == astype_int8(binary_repr(n))

_bin_array(n, width) == astype_int8(zfill(binary_repr(n), width))

(***************************************************************************)
(* HashedImage                                                             *)
(***************************************************************************)
CanOpen(path) == content[realpath(path)] # Undecodable

HashedImage(path) ==
    [path |-> path,
     hash_func |-> phash,
     hash |-> content[realpath(path)],
     hash_as_bit_arr |-> _bin_array(content[realpath(path)],
                                   _hash_size * BITS_PER_BYTE)]

HashedImage_eq_by_path(self, other) ==
    IF self.hash_func # other.hash_func THEN FALSE
    ELSE self.path = other.path

HashedImage_eq(self, other) ==
    IF self.hash_func # other.hash_func THEN FALSE
    ELSE realpath(self.path) = realpath(other.path)

(***************************************************************************)
(* dict: a sequence of entries in insertion order; assigning to a key      *)
(* that is present replaces its value in place.                            *)
(***************************************************************************)
dict_keys(d) == [k \in 1..Len(d) |-> d[k].key]
dict_values(d) == [k \in 1..Len(d) |-> d[k].val]
dict_has(d, key) == \E k \in 1..Len(d) : d[k].key = key
dict_index(d, key) == CHOOSE k \in 1..Len(d) : d[k].key = key
dict_get(d, key) == d[dict_index(d, key)].val

dict_set_append(d, key, val) == Append(d, [key |-> key, val |-> val])

dict_set(d, key, val) ==
    IF dict_has(d, key)
    THEN [d EXCEPT ![dict_index(d, key)] = [key |-> key, val |-> val]]
    ELSE Append(d, [key |-> key, val |-> val])

\* res[key].append(val) on a defaultdict(list)
defaultdict_append(d, key, val) ==
    IF dict_has(d, key)
    THEN [d EXCEPT ![dict_index(d, key)].val = Append(@, val)]
    ELSE Append(d, [key |-> key, val |-> <<val>>])

(***************************************************************************)
(* scipy.spatial.KDTree                                                    *)
(***************************************************************************)
KDTree_data(list) == [k \in 1..Len(list) |-> list[k].hash_as_bit_arr]

RECURSIVE sum_sq_diff(_, _, _)
sum_sq_diff(x, y, k) ==
    IF k = 0 THEN 0
    ELSE (x[k] - y[k]) * (x[k] - y[k]) + sum_sq_diff(x, y, k - 1)

within_r_linear(x, y, r) == sum_sq_diff(x, y, Len(x)) <= r

within_r_exact(x, y, r) == sum_sq_diff(x, y, Len(x)) = r * r

within_r_strict(x, y, r) == sum_sq_diff(x, y, Len(x)) < r * r

within_r(x, y, r) == sum_sq_diff(x, y, Len(x)) <= r * r

RECURSIVE ball_scan(_, _, _, _)
ball_scan(data, x, r, k) ==
    IF k > Len(data) THEN <<>>
    ELSE (IF within_r(x, data[k], r) THEN <<k - 1>> ELSE <<>>)
         \o ball_scan(data, x, r, k + 1)

query_ball_point(data, x, r) == ball_scan(data, x, r, 1)

(***************************************************************************)
(* get_similar_images: the body of the query loop, and the loop.           *)
(***************************************************************************)
RECURSIVE collect(_, _, _, _, _, _)
collect(r0, img, ids, k, imgs, list) ==
    IF k > Len(ids) THEN r0
    ELSE collect(IF ~HashedImage_eq(dict_get(imgs, img), list[ids[k] + 1])
                 THEN defaultdict_append(r0, img, list[ids[k] + 1])
                 ELSE r0,
                 img, ids, k + 1, imgs, list)

query_image(r0, img, imgs, list, data, r) ==
    collect(r0, img, query_ball_point(data, dict_get(imgs, img).hash_as_bit_arr, r),
            1, imgs, list)

RECURSIVE query_loop(_, _, _, _, _, _, _)
query_loop(r0, listing, k, imgs, list, data, r) ==
    IF k > Len(listing) THEN r0
    ELSE query_loop(query_image(r0, listing[k], imgs, list, data, r),
                    listing, k + 1, imgs, list, data, r)

query_path_existing == path_to_existing_images

query_path == IF path_to_new_images # None THEN path_to_new_images
              ELSE path_to_existing_images

(***************************************************************************)
(* similar_images_pairs: a Python set is modelled as the sequence of its   *)
(* members, add() leaving it alone when an equal member is present; a      *)
(* frozenset of two paths is the set of them.                              *)
(***************************************************************************)
frozenset2(a, b) == {a, b}

set_add_always(s, e) == Append(s, e)

set_add(s, e) == IF \E k \in 1..Len(s) : s[k] = e THEN s ELSE Append(s, e)

RECURSIVE pairs_of_list(_, _, _, _)
pairs_of_list(s, base_image, similar_to_list, k) ==
    IF k > Len(similar_to_list) THEN s
    ELSE pairs_of_list(set_add(s, frozenset2(base_image, similar_to_list[k].path)),
                       base_image, similar_to_list, k + 1)

RECURSIVE pairs_of_map(_, _, _)
pairs_of_map(s, similar_img_map, k) ==
    IF k > Len(similar_img_map) THEN s
    ELSE pairs_of_map(pairs_of_list(s, similar_img_map[k].key,
                                    similar_img_map[k].val, 1),
                      similar_img_map, k + 1)

similar_images_pairs(similar_img_map) == pairs_of_map(<<>>, similar_img_map, 1)

(***************************************************************************)
(* Initial states: a file system, the arguments, and an empty run.         *)
(***************************************************************************)
FileSystems ==
    /\ files \in SUBSET ImagePaths
    /\ link \in BOOLEAN
    /\ link => {"pics/a.png", "pics/new/c.png"} \subseteq files
    /\ content \in [files -> HashValues \cup {Undecodable}]
    /\ link => content["pics/new/c.png"] = content["pics/a.png"]
    /\ scandir_pics \in Orders(files \cap {"pics/a.png", "pics/b.PNG"})

NoBinArray == num = 0 /\ m = 0 /\ bit_arr = <<>>

Init ==
    /\ FileSystems
    /\ path_to_existing_images \in Roots
    /\ path_to_new_images \in Roots \cup {None}
    /\ sensitivity \in 0..MaxSensitivity
    /\ pc = "hash_existing"
    /\ i = 1
    /\ images = <<>>
    /\ image_list = <<>>
    /\ tree = <<>>
    /\ res = <<>>
    /\ similar_img_ids = <<>>
    /\ similar_pairs = <<>>
    /\ exc = "none"
    /\ NoBinArray

(***************************************************************************)
(* get_similar_images, lines 90-96: fingerprint every listed image.        *)
(***************************************************************************)
StoreImage(listing) ==
    IF CanOpen(listing[i])
    THEN /\ images' = dict_set(images, listing[i], HashedImage(listing[i]))
         /\ i' = i + 1
         /\ UNCHANGED <<pc, exc>>
    ELSE /\ pc' = "raised"
         /\ exc' = "UnidentifiedImageError"
         /\ UNCHANGED <<images, i>>

HashExisting ==
    /\ pc = "hash_existing"
    /\ i <= Len(_list_images(path_to_existing_images))
    /\ StoreImage(_list_images(path_to_existing_images))
    /\ UNCHANGED <<files, link, content, scandir_pics,
                   path_to_existing_images,
                   path_to_new_images, sensitivity, image_list, tree, res,
                   similar_img_ids, similar_pairs, num, m, bit_arr>>

EndHashExisting ==
    /\ pc = "hash_existing"
    /\ i > Len(_list_images(path_to_existing_images))
    /\ pc' = IF path_to_new_images # None THEN "hash_new" ELSE "build_tree"
    /\ i' = 1
    /\ UNCHANGED <<files, link, content, scandir_pics,
                   path_to_existing_images,
                   path_to_new_images, sensitivity, images, image_list, tree,
                   res, similar_img_ids, similar_pairs, exc, num, m, bit_arr>>

HashNew ==
    /\ pc = "hash_new"
    /\ i <= Len(_list_images(path_to_new_images))
    /\ StoreImage(_list_images(path_to_new_images))
    /\ UNCHANGED <<files, link, content, scandir_pics,
                   path_to_existing_images,
                   path_to_new_images, sensitivity, image_list, tree, res,
                   similar_img_ids, similar_pairs, num, m, bit_arr>>

EndHashNew ==
    /\ pc = "hash_new"
    /\ i > Len(_list_images(path_to_new_images))
    /\ pc' = "build_tree"
    /\ i' = 1
    /\ UNCHANGED <<files, link, content, scandir_pics,
                   path_to_existing_images,
                   path_to_new_images, sensitivity, images, image_list, tree,
                   res, similar_img_ids, similar_pairs, exc, num, m, bit_arr>>

(***************************************************************************)
(* Lines 98-101: the list, the tree (KDTree rejects data that is not a     *)
(* two-dimensional array, which the empty list is not) and the empty map.  *)
(***************************************************************************)
BuildTree ==
    /\ pc = "build_tree"
    /\ image_list' = dict_values(images)
    /\ IF Len(dict_values(images)) = 0
       THEN /\ pc' = "raised"
            /\ exc' = "ValueError"
            /\ UNCHANGED tree
       ELSE /\ tree' = KDTree_data(dict_values(images))
            /\ pc' = "query"
            /\ UNCHANGED exc
    /\ res' = <<>>
    /\ i' = 1
    /\ UNCHANGED <<files, link, content, scandir_pics,
                   path_to_existing_images,
                   path_to_new_images, sensitivity, images, similar_img_ids,
                   similar_pairs, num, m, bit_arr>>

(***************************************************************************)
(* Lines 102-106: one iteration of the query loop.                         *)
(***************************************************************************)
Query ==
    /\ pc = "query"
    /\ i <= Len(_list_images(query_path))
    /\ similar_img_ids' =
          query_ball_point(tree,
              dict_get(images, _list_images(query_path)[i]).hash_as_bit_arr,
              sensitivity)
    /\ res' = query_image(res, _list_images(query_path)[i], images, image_list,
                          tree, sensitivity)
    /\ i' = i + 1
    /\ UNCHANGED <<files, link, content, scandir_pics,
                   path_to_existing_images,
                   path_to_new_images, sensitivity, pc, images, image_list,
                   tree, similar_pairs, exc, num, m, bit_arr>>

(***************************************************************************)
(* Line 107 and main, lines 159-160: the map is returned and converted.    *)
(***************************************************************************)
Pairs ==
    /\ pc = "query"
    /\ i > Len(_list_images(query_path))
    /\ similar_pairs' = similar_images_pairs(res)
    /\ pc' = "done"
    /\ UNCHANGED <<files, link, content, scandir_pics,
                   path_to_existing_images,
                   path_to_new_images, sensitivity, i, images, image_list,
                   tree, res, similar_img_ids, exc, num, m, bit_arr>>

Next ==
    \/ HashExisting
    \/ EndHashExisting
    \/ HashNew
    \/ EndHashNew
    \/ BuildTree
    \/ Query
    \/ Pairs

Spec == Init /\ [][Next]_vars

(***************************************************************************)
(* _bin_array on its own: every width up to MaxWidth and every value that  *)
(* fits the width.                                                         *)
(***************************************************************************)
InitBin ==
    /\ files = {}
    /\ link = FALSE
    /\ content = <<>>
    /\ scandir_pics = <<>>
    /\ path_to_existing_images = "pics"
    /\ path_to_new_images = None
    /\ sensitivity = 0
    /\ pc = "bin_array"
    /\ i = 1
    /\ images = <<>>
    /\ image_list = <<>>
    /\ tree = <<>>
    /\ res = <<>>
    /\ similar_img_ids = <<>>
    /\ similar_pairs = <<>>
    /\ exc = "none"
    /\ m \in 1..MaxWidth
    /\ num \in 0..(Pow2(m) - 1)
    /\ bit_arr = <<>>

BinArray ==
    /\ pc = "bin_array"
    /\ bit_arr' = _bin_array(num, m)
    /\ pc' = "bin_array_done"
    /\ UNCHANGED <<files, link, content, scandir_pics,
                   path_to_existing_images,
                   path_to_new_images, sensitivity, i, images, image_list,
                   tree, res, similar_img_ids, similar_pairs, exc, num, m>>

NextBin ==
    \/ Next
    \/ BinArray

\* the runs of main together with the applications of _bin_array
SpecBin == (Init \/ InitBin) /\ [][NextBin]_vars

(***************************************************************************)
(* Vocabulary of the properties.                                           *)
(***************************************************************************)
Range(s) == {s[k] : k \in 1..Len(s)}
NoRepeats(s) == \A j, k \in 1..Len(s) : j # k => s[j] # s[k]
Indexed == Range(dict_keys(images))
QuerySet == Range(_list_images(query_path))
BitsOf(p) == dict_get(images, p).hash_as_bit_arr
Hamming(x, y) == Cardinality({k \in 1..Len(x) : x[k] # y[k]})
ListedUnder(q, p) ==
    \E k \in 1..Len(res) :
        res[k].key = q /\ \E j \in 1..Len(res[k].val) : res[k].val[j].path = p
Occurrences(e) == Cardinality({k \in 1..Len(similar_pairs) : similar_pairs[k] = e})
Reported(a, b) == \E k \in 1..Len(similar_pairs) : similar_pairs[k] = {a, b}
Indexing == pc \in {"query", "done"}
PairsAt(r) ==
    Range(similar_images_pairs(
        query_loop(<<>>, _list_images(query_path), 1, images, image_list, tree, r)))
RECURSIVE BitsValue(_, _)
BitsValue(b, k) == IF k = 0 THEN 0 ELSE b[k] + 2 * BitsValue(b, k - 1)

\* C1: every match recorded under a query path has a resolved identity
\* different from the query's, and every reported pair holds two distinct
\* source identifiers: no pair (x, x) is reported.
C1_NoSelfMatch ==
    /\ \A k \in 1..Len(res) : \A j \in 1..Len(res[k].val) :
          realpath(res[k].val[j].path) # realpath(res[k].key)
    /\ \A k \in 1..Len(similar_pairs) : Cardinality(similar_pairs[k]) = 2

\* A query through a symlink found its own target, itself and one more
\* image, and only the last was reported.
C1_Witness ==
    /\ pc = "done"
    /\ link
    /\ path_to_existing_images = "pics"
    /\ path_to_new_images = "pics/new"
    /\ Len(similar_img_ids) = 3
    /\ Len(similar_pairs) = 1

\* C2 as amended: the radius test is symmetric; two queried images are
\* listed under each other or neither is (in self-comparison mode every
\* image is queried); two indexed images of distinct identity within the
\* threshold, at least one of them in the query set, stand in the returned
\* set exactly once as one unordered pair; and no pair stands in it twice.
C2_Symmetry ==
    /\ pc = "done" =>
          \A x, y \in Range(tree) :
             within_r(x, y, sensitivity) <=> within_r(y, x, sensitivity)
    /\ pc = "done" =>
          \A a, b \in Indexed :
             /\ (a \in QuerySet /\ b \in QuerySet)
                => (ListedUnder(a, b) <=> ListedUnder(b, a))
             /\ (realpath(a) # realpath(b)
                   /\ (a \in QuerySet \/ b \in QuerySet)
                   /\ within_r(BitsOf(a), BitsOf(b), sensitivity))
                => Occurrences({a, b}) = 1
             /\ ListedUnder(a, b) => Occurrences({a, b}) = 1
    /\ pc = "done" /\ path_to_new_images = None => QuerySet = Indexed
    /\ NoRepeats(similar_pairs)

\* C2 as stated: any two indexed images within the threshold of each other
\* stand in the returned set exactly once as a pair.
C2_SymmetryAnyPair ==
    pc = "done" =>
        \A a, b \in Indexed :
           (a # b /\ within_r(BitsOf(a), BitsOf(b), sensitivity))
           => Occurrences({a, b}) = 1

\* Self-comparison found two images listed under each other, at a distance
\* above zero, and reported them.
C2_Witness ==
    /\ pc = "done"
    /\ path_to_new_images = None
    /\ \E a, b \in Indexed :
          /\ ListedUnder(a, b) /\ ListedUnder(b, a)
          /\ BitsOf(a) # BitsOf(b)
          /\ Occurrences({a, b}) = 1

\* C3: the radius query returns exactly the indexed images whose vectors
\* differ from the query's in at most sensitivity * sensitivity bit
\* positions, each once.
C3_RadiusIsSquaredHamming ==
    (Indexing /\ i > 1) =>
        /\ Range(similar_img_ids) =
              {k - 1 : k \in {j \in 1..Len(image_list) :
                   Hamming(image_list[j].hash_as_bit_arr,
                           BitsOf(_list_images(query_path)[i - 1]))
                      <= sensitivity * sensitivity}}
        /\ NoRepeats(similar_img_ids)

\* A query at sensitivity 2 returned an image three bits away and left out
\* one five bits away.
C3_Witness ==
    /\ pc = "query"
    /\ i > 1
    /\ sensitivity = 2
    /\ \E id \in Range(similar_img_ids) :
          Hamming(image_list[id + 1].hash_as_bit_arr,
                  BitsOf(_list_images(query_path)[i - 1])) = 3
    /\ \E k \in 1..Len(image_list) :
          /\ k - 1 \notin Range(similar_img_ids)
          /\ Hamming(image_list[k].hash_as_bit_arr,
                     BitsOf(_list_images(query_path)[i - 1])) = 5

\* C4: for the same fingerprints and query set, every pair reported at the
\* run's sensitivity is reported at every larger sensitivity.
C4_Monotone ==
    pc = "done" =>
        /\ Range(similar_pairs) = PairsAt(sensitivity)
        /\ \A t \in (sensitivity + 1)..(MaxSensitivity + 1) :
              Range(similar_pairs) \subseteq PairsAt(t)

\* A run reported a pair, and a larger sensitivity reports strictly more.
C4_Witness ==
    /\ pc = "done"
    /\ sensitivity < MaxSensitivity
    /\ Len(similar_pairs) >= 1
    /\ PairsAt(sensitivity + 1) # Range(similar_pairs)

\* C5: a path listed under both roots has one fingerprint: the store, the
\* list handed to the index and the index hold one entry per distinct
\* listed path, and no image is reported as a match of itself or twice
\* under one query.
C5_OneEntryPerPath ==
    /\ NoRepeats(dict_keys(images))
    /\ Indexing =>
          /\ Indexed = Range(_list_images(path_to_existing_images))
                \cup (IF path_to_new_images = None THEN {}
                      ELSE Range(_list_images(path_to_new_images)))
          /\ Len(image_list) = Cardinality(Indexed)
          /\ Len(tree) = Cardinality(Indexed)
          /\ \A k \in 1..Len(image_list) : image_list[k].path = images[k].key
    /\ \A k \in 1..Len(res) :
          /\ NoRepeats(res[k].val)
          /\ \A j \in 1..Len(res[k].val) : res[k].val[j].path # res[k].key

\* The new root lies inside the existing one, its image was listed under
\* both, three images were indexed and the new one was reported with
\* another.
C5_Witness ==
    /\ pc = "done"
    /\ path_to_existing_images = "pics"
    /\ path_to_new_images = "pics/new"
    /\ ~link
    /\ Len(_list_images("pics")) = 3
    /\ Len(_list_images("pics/new")) = 1
    /\ Len(image_list) = 3
    /\ Reported("pics/new/c.png", "pics/a.png")

\* C6: when the listing of the input path is empty, get_similar_images
\* raises nothing and returns an empty map.
C6_EmptyDirectoryYieldsEmpty ==
    (path_to_new_images = None
        /\ _list_images(path_to_existing_images) = <<>>)
    => /\ pc # "raised"
       /\ pc = "done" => res = <<>>

\* C7: a listed image that cannot be decoded does not abort the run.
C7_DecodeFailureRecoverable ==
    pc = "raised" => exc # "UnidentifiedImageError"

\* C8: _bin_array(num, m) for 0 <= num < 2^m is m bits, most significant
\* first, whose binary value is num; and every fingerprint of a run is
\* _hash_size * BITS_PER_BYTE bits long.
C8_BinArrayWidth ==
    /\ pc = "bin_array_done" =>
          /\ Len(bit_arr) = m
          /\ \A k \in 1..Len(bit_arr) : bit_arr[k] \in {0, 1}
          /\ BitsValue(bit_arr, Len(bit_arr)) = num
    /\ \A k \in 1..Len(images) :
          /\ Len(images[k].val.hash_as_bit_arr) = _hash_size * BITS_PER_BYTE
          /\ BitsValue(SubSeq(images[k].val.hash_as_bit_arr,
                              _hash_size * BITS_PER_BYTE - MaxOnes,
                              _hash_size * BITS_PER_BYTE), MaxOnes + 1)
                = images[k].val.hash
          /\ \A j \in 1..(_hash_size * BITS_PER_BYTE - MaxOnes - 1) :
                images[k].val.hash_as_bit_arr[j] = 0

\* A value with leading zeros was converted at full width.
C8_Witness ==
    /\ pc = "bin_array_done"
    /\ m = MaxWidth
    /\ num = 5
    /\ bit_arr[1] = 0
    /\ bit_arr[m] = 1

\* C9 as amended: at sensitivity 0 two indexed images of distinct identity,
\* at least one of them in the query set, are reported iff their
\* fingerprints are identical, once; nothing else is reported.
C9_ZeroThreshold ==
    (pc = "done" /\ sensitivity = 0) =>
        /\ \A a, b \in Indexed :
              (realpath(a) # realpath(b) /\ (a \in QuerySet \/ b \in QuerySet))
              => /\ Reported(a, b) <=> BitsOf(a) = BitsOf(b)
                 /\ Occurrences({a, b}) <= 1
        /\ \A k \in 1..Len(similar_pairs) :
              \E a, b \in Indexed :
                 /\ similar_pairs[k] = {a, b}
                 /\ realpath(a) # realpath(b)
                 /\ BitsOf(a) = BitsOf(b)

\* At sensitivity 0 one pair of identical fingerprints was reported and an
\* image with another fingerprint was left unmatched.
C9_Witness ==
    /\ pc = "done"
    /\ path_to_new_images = None
    /\ sensitivity = 0
    /\ Len(similar_pairs) = 1
    /\ Len(image_list) = 3
    /\ \E a \in Indexed : \A b \in Indexed \ {a} : BitsOf(a) # BitsOf(b)

\* C9 as stated: at sensitivity 0 any two indexed images of distinct
\* identity are reported iff their fingerprints are identical.
C9_ZeroThresholdAnyPair ==
    (pc = "done" /\ sensitivity = 0) =>
        \A a, b \in Indexed :
           realpath(a) # realpath(b)
           => (Reported(a, b) <=> BitsOf(a) = BitsOf(b))

\* C10: with a new root the index holds both sets, only new-set paths are
\* keys of the map and each maps to a non-empty list, every reported pair
\* holds a new-set path, and two new-set images of distinct identity within
\* the threshold are reported.
C10_OnlyNewQueried ==
    (path_to_new_images # None /\ Indexing) =>
        /\ Indexed = Range(_list_images(path_to_existing_images))
                        \cup Range(_list_images(path_to_new_images))
        /\ \A k \in 1..Len(res) :
              /\ res[k].key \in Range(_list_images(path_to_new_images))
              /\ Len(res[k].val) >= 1
        /\ NoRepeats(dict_keys(res))
        /\ pc = "done" =>
              /\ \A k \in 1..Len(similar_pairs) :
                    similar_pairs[k] \cap Range(_list_images(path_to_new_images))
                       # {}
              /\ \A a, b \in Range(_list_images(path_to_new_images)) :
                    (realpath(a) # realpath(b)
                       /\ within_r(BitsOf(a), BitsOf(b), sensitivity))
                    => Reported(a, b)

\* Two existing-only images with one fingerprint went unreported while the
\* new image was reported with one of them.
C10_Witness ==
    /\ pc = "done"
    /\ path_to_existing_images = "pics"
    /\ path_to_new_images = "pics/new"
    /\ ~link
    /\ {"pics/a.png", "pics/b.PNG"} \subseteq Indexed
    /\ BitsOf("pics/a.png") = BitsOf("pics/b.PNG")
    /\ ~Reported("pics/a.png", "pics/b.PNG")
    /\ Reported("pics/new/c.png", "pics/a.png")

====
